---- MODULE Spec2Model ----
(***************************************************************************)
(* todo-cli: the task ordering (task.rs), the task filter (filter.rs),     *)
(* the due-date parser (date_parser.rs) and the commands on the storage    *)
(* (main.rs, storage.rs), as state machines.                               *)
(*                                                                         *)
(* Option<T> is a sequence of length 0 or 1: None is << >>, Some(x) is     *)
(* <<x>>.  A DateTime<Local> held by a task (due_date, created_at) is an   *)
(* integer instant.  std::cmp::Ordering is "Less", "Equal" or "Greater".   *)
(* A string is the sequence of its characters, a calendar date a record    *)
(* [y, m, d].  The clock is the local date alone: the time of day          *)
(* Local::now() reads is not part of the state, and every local time       *)
(* 23:59:59 is taken to exist once (no daylight-saving gap or overlap).    *)
(***************************************************************************)
EXTENDS Integers, Sequences, FiniteSets, TLC

VARIABLES
    tasks,      \* storage.tasks: the Vec<Task> the operations read
    args,       \* the arguments of the operation under way
    out,        \* what the operation returned, or Pending before it ran
    now,        \* what Local::now() reads: the local calendar date, or the
                \* instant where tasks are stamped
    log,        \* the parse_date calls of a run, with what each returned
    next_id,    \* storage.next_id
    file        \* the storage the data file holds

vars == <<tasks, args, out, now, log, next_id, file>>

\* ------------------------------------------------------------------ bounds
MaxStamp == 2       \* instants (due_date, created_at) are 1..MaxStamp
MaxPrio == 2        \* priorities are 1..MaxPrio
MaxTasks == 3       \* the filter is given at most MaxTasks tasks
MaxN == 13          \* "in N <unit>" is asked for N in 0..MaxN, in digits
MaxCalls == 2       \* a run calls parse_date at most MaxCalls times
MaxTicks == 2       \* midnight passes at most MaxTicks times in a run
MaxChunks == 2      \* a description is made of at most MaxChunks phrases
MaxAdds == 2        \* at most MaxAdds tasks are ever added to a storage

\* ------------------------------------------------------------- Option, Task
None == << >>
Some(x) == <<x>>
IsSome(o) == Len(o) = 1
Unwrap(o) == o[1]

\* What an operation returned: nothing yet, or its value.
Pending == [done |-> FALSE, val |-> << >>]
Returned(v) == [done |-> TRUE, val |-> v]
NoArgs == [op |-> "none"]
NoClock == [y |-> 0, m |-> 0, d |-> 0]

\* Task::new, task.rs:27-38: the fields a new task starts with.
TaskNew(id, description, at) ==
    [id |-> id, description |-> description, priority |-> None,
     due_date |-> None, tags |-> << >>, completed |-> FALSE,
     created_at |-> at, completed_at |-> None]

\* ------------------------------------------------------------ the ordering
\* Ord for an integer-like value (DateTime<Local>::cmp, u8::cmp).
IntCmp(x, y) == IF x < y THEN "Less" ELSE IF x > y THEN "Greater" ELSE "Equal"

\* One Option stage of Task::cmp (task.rs:97-107 and 109-119): the ordering
\* the stage returns, or "Equal" when it falls through to the next stage.
OptStage(x, y) ==
    CASE IsSome(x) /\ IsSome(y) -> IntCmp(Unwrap(x), Unwrap(y))
      [] IsSome(x) /\ ~IsSome(y) -> "Less"
      [] ~IsSome(x) /\ IsSome(y) -> "Greater"
      [] OTHER -> "Equal"

\* Mutants of cmp: the completion stage left out; the priority stage tried
\* before the due-date stage; the priority stage answering Less for (None, Some).
cmp_NoCompletedStage(self, other) ==
    IF OptStage(self.due_date, other.due_date) # "Equal"
    THEN OptStage(self.due_date, other.due_date)
    ELSE IF OptStage(self.priority, other.priority) # "Equal"
         THEN OptStage(self.priority, other.priority)
    ELSE IntCmp(self.created_at, other.created_at)

cmp_PriorityFirst(self, other) ==
    IF ~self.completed /\ other.completed THEN "Less"
    ELSE IF self.completed /\ ~other.completed THEN "Greater"
    ELSE IF OptStage(self.priority, other.priority) # "Equal"
         THEN OptStage(self.priority, other.priority)
    ELSE IF OptStage(self.due_date, other.due_date) # "Equal"
         THEN OptStage(self.due_date, other.due_date)
    ELSE IntCmp(self.created_at, other.created_at)

cmp_NonePriorityLess(self, other) ==
    IF ~self.completed /\ other.completed THEN "Less"
    ELSE IF self.completed /\ ~other.completed THEN "Greater"
    ELSE IF OptStage(self.due_date, other.due_date) # "Equal"
         THEN OptStage(self.due_date, other.due_date)
    ELSE IF ~IsSome(self.priority) /\ IsSome(other.priority) THEN "Less"
    ELSE IF OptStage(self.priority, other.priority) # "Equal"
         THEN OptStage(self.priority, other.priority)
    ELSE IntCmp(self.created_at, other.created_at)

\* impl Ord for Task, task.rs:87-123.
cmp(self, other) ==
    IF ~self.completed /\ other.completed THEN "Less"
    ELSE IF self.completed /\ ~other.completed THEN "Greater"
    ELSE IF OptStage(self.due_date, other.due_date) # "Equal"
         THEN OptStage(self.due_date, other.due_date)
    ELSE IF OptStage(self.priority, other.priority) # "Equal"
         THEN OptStage(self.priority, other.priority)
    ELSE IntCmp(self.created_at, other.created_at)

\* slice::sort is a stable sort by Ord::cmp: an element is placed after every
\* element already placed that is not Greater than it.
RECURSIVE InsertSorted(_, _)
InsertSorted(t, s) ==
    IF s = << >> THEN <<t>>
    ELSE IF cmp(t, Head(s)) = "Less" THEN <<t>> \o s
    ELSE <<Head(s)>> \o InsertSorted(t, Tail(s))

RECURSIVE SortFrom(_, _)
SortFrom(s, acc) ==
    IF s = << >> THEN acc ELSE SortFrom(Tail(s), InsertSorted(Head(s), acc))

\* sort_tasks, filter.rs:3-5.
sort_tasks(ts) == SortFrom(ts, << >>)

\* ------------------------------------------------ the ordering, on its own
Stamps == 1..MaxStamp
Prios == 1..MaxPrio
OptOf(S) == {None} \cup {Some(x) : x \in S}

\* The tasks the ordering is applied to: every combination of the four fields
\* cmp reads.
OrdTask(id, c, d, p, at) ==
    [TaskNew(id, "t", at) EXCEPT !.completed = c, !.due_date = d, !.priority = p]

OrdTasks(id) ==
    {OrdTask(id, c, d, p, at) :
        c \in BOOLEAN, d \in OptOf(Stamps), p \in OptOf(Prios), at \in Stamps}

InitOrd ==
    /\ \E x \in OrdTasks(1), y \in OrdTasks(2), z \in OrdTasks(3) : tasks = <<x, y, z>>
    /\ args = NoArgs
    /\ out = Pending
    /\ now = NoClock
    /\ log = << >>
    /\ next_id = Len(tasks) + 1
    /\ file = [tasks |-> tasks, next_id |-> Len(tasks) + 1]

\* list_tasks sorts the references it holds (main.rs:171).
SortTasks ==
    /\ out = Pending
    /\ out' = Returned(sort_tasks(tasks))
    /\ UNCHANGED <<tasks, args, now, log, next_id, file>>

NextOrd == SortTasks

SpecOrd == InitOrd /\ [][NextOrd]_vars

\* ------------------------------------------------------------ claims C1-C3
\* InitOrd draws every triple of tasks, so a statement about tasks[1], tasks[2]
\* and tasks[3] is a statement about all tasks a, b and c.
Reverse(o) == IF o = "Less" THEN "Greater" ELSE IF o = "Greater" THEN "Less" ELSE "Equal"
Elems(s) == {s[i] : i \in DOMAIN s}

\* C1: an incomplete task compares Less than a completed one and the completed
\* one Greater than it, whatever their due dates, priorities and creation
\* instants; so sort_tasks returns the same tasks with every incomplete task
\* before every completed one.
C1_IncompleteBeforeCompleted ==
    /\ (~tasks[1].completed /\ tasks[2].completed) =>
          /\ cmp(tasks[1], tasks[2]) = "Less"
          /\ cmp(tasks[2], tasks[1]) = "Greater"
    /\ out.done =>
          /\ Len(out.val) = Len(tasks) /\ Elems(out.val) = Elems(tasks)
          /\ \A i, j \in DOMAIN out.val :
                (~out.val[i].completed /\ out.val[j].completed) => i < j

\* A sorted list in which a completed task that is due earlier, more urgent
\* and older than an incomplete one stood first and was moved behind it.
C1_Witness ==
    /\ out.done
    /\ tasks[1].completed /\ ~tasks[2].completed
    /\ IsSome(tasks[1].due_date) /\ IsSome(tasks[2].due_date)
    /\ Unwrap(tasks[1].due_date) < Unwrap(tasks[2].due_date)
    /\ IsSome(tasks[1].priority) /\ ~IsSome(tasks[2].priority)
    /\ tasks[1].created_at < tasks[2].created_at
    /\ \E i, j \in DOMAIN out.val : i < j /\ out.val[i].id = 2 /\ out.val[j].id = 1

\* The ordering C2 states for two tasks with the same completed flag: the
\* first of due date, priority, creation instant that differs decides; in an
\* Option stage the present value comes first, and of two present values the
\* smaller.
OptBefore(x, y) == IsSome(x) /\ (~IsSome(y) \/ Unwrap(x) < Unwrap(y))
StagedOrder(a, b) ==
    IF a.due_date # b.due_date
    THEN (IF OptBefore(a.due_date, b.due_date) THEN "Less" ELSE "Greater")
    ELSE IF a.priority # b.priority
    THEN (IF OptBefore(a.priority, b.priority) THEN "Less" ELSE "Greater")
    ELSE IF a.created_at < b.created_at THEN "Less"
    ELSE IF a.created_at > b.created_at THEN "Greater"
    ELSE "Equal"

\* C2: for two tasks with the same completed flag cmp is decided by the first
\* stage that differs: due date (present before absent, earlier first), then
\* priority (present before absent, smaller first), then created_at (earlier
\* first); of two incomplete tasks due at D1 < D2 the one due at D1 is Less
\* whatever the priorities.
C2_StagesInOrder ==
    (tasks[1].completed = tasks[2].completed) =>
        /\ cmp(tasks[1], tasks[2]) = StagedOrder(tasks[1], tasks[2])
        /\ ( /\ ~tasks[1].completed
             /\ IsSome(tasks[1].due_date) /\ IsSome(tasks[2].due_date)
             /\ Unwrap(tasks[1].due_date) < Unwrap(tasks[2].due_date) )
           => cmp(tasks[1], tasks[2]) = "Less"

\* Two incomplete tasks, the one due earlier being the less urgent and the
\* younger, sorted with the earlier due date first.
C2_Witness ==
    /\ out.done
    /\ ~tasks[1].completed /\ ~tasks[2].completed
    /\ IsSome(tasks[1].due_date) /\ IsSome(tasks[2].due_date)
    /\ Unwrap(tasks[2].due_date) < Unwrap(tasks[1].due_date)
    /\ IsSome(tasks[1].priority) /\ IsSome(tasks[2].priority)
    /\ Unwrap(tasks[1].priority) < Unwrap(tasks[2].priority)
    /\ tasks[1].created_at < tasks[2].created_at
    /\ \E i, j \in DOMAIN out.val : i < j /\ out.val[i].id = 2 /\ out.val[j].id = 1

ComparedFields(t) == <<t.completed, t.due_date, t.priority, t.created_at>>

\* C3: cmp is a strict total order: cmp(a, b) is Equal exactly when a and b
\* agree in completed, due_date, priority and created_at (so exactly one of
\* a < b, a == b, a > b holds); cmp(b, a) is the reverse of cmp(a, b); a < b
\* and b < c give a < c.
C3_StrictTotalOrder ==
    /\ cmp(tasks[1], tasks[2]) \in {"Less", "Equal", "Greater"}
    /\ (cmp(tasks[1], tasks[2]) = "Equal") <=>
           (ComparedFields(tasks[1]) = ComparedFields(tasks[2]))
    /\ cmp(tasks[2], tasks[1]) = Reverse(cmp(tasks[1], tasks[2]))
    /\ (cmp(tasks[1], tasks[2]) = "Less" /\ cmp(tasks[2], tasks[3]) = "Less")
          => cmp(tasks[1], tasks[3]) = "Less"

\* Three tasks a < b < c, a < b decided by the priority stage and b < c by the
\* completion stage, which the sort leaves in place.
C3_Witness ==
    /\ out.done
    /\ ~tasks[1].completed /\ ~tasks[2].completed /\ tasks[3].completed
    /\ tasks[1].due_date = tasks[2].due_date
    /\ IsSome(tasks[1].priority) /\ ~IsSome(tasks[2].priority)
    /\ cmp(tasks[1], tasks[2]) = "Less" /\ cmp(tasks[2], tasks[3]) = "Less"
    /\ cmp(tasks[1], tasks[3]) = "Less"
    /\ out.val = tasks

\* ---------------------------------------------------------------- filter
\* self.tags.iter().any(|t| t == tag), task.rs:58 and 64.
RECURSIVE TagsAny(_, _)
TagsAny(tags, tag) ==
    IF tags = << >> THEN FALSE
    ELSE IF Head(tags) = tag THEN TRUE
    ELSE TagsAny(Tail(tags), tag)

\* Mutant of matches_tag_filter: only the first tag of a task is looked at.
matches_tag_filter_FirstTagOnly(self, include_tag, exclude_tag) ==
    /\ IsSome(include_tag) =>
          (self.tags # << >> /\ Head(self.tags) = Unwrap(include_tag))
    /\ IsSome(exclude_tag) =>
          ~(self.tags # << >> /\ Head(self.tags) = Unwrap(exclude_tag))

\* Task::matches_tag_filter, task.rs:56-70.
matches_tag_filter(self, include_tag, exclude_tag) ==
    IF IsSome(include_tag) /\ ~TagsAny(self.tags, Unwrap(include_tag)) THEN FALSE
    ELSE IF IsSome(exclude_tag) /\ TagsAny(self.tags, Unwrap(exclude_tag)) THEN FALSE
    ELSE TRUE

\* The closure filter_tasks passes to Iterator::filter, filter.rs:15-23.
FilterKeeps(task, include_tag, exclude_tag, show_completed) ==
    IF ~show_completed /\ task.completed THEN FALSE
    ELSE matches_tag_filter(task, include_tag, exclude_tag)

\* filter_tasks, filter.rs:7-25: iter().filter(..).collect().
RECURSIVE filter_tasks(_, _, _, _)
filter_tasks(ts, include_tag, exclude_tag, show_completed) ==
    IF ts = << >> THEN << >>
    ELSE (IF FilterKeeps(Head(ts), include_tag, exclude_tag, show_completed)
          THEN <<Head(ts)>> ELSE << >>)
         \o filter_tasks(Tail(ts), include_tag, exclude_tag, show_completed)

\* The tag vectors of the tasks given to the filter: none, one tag, a tag
\* that differs from "work" in case only, and the tag asked for in second place.
TagVecs == {<< >>, <<"work">>, <<"Work", "urgent">>, <<"urgent", "work">>}
\* The tags a filter asks for.
FilterTags == {"work", "urgent"}

FilterTask(id, tags, c) ==
    [TaskNew(id, "t", 1) EXCEPT !.tags = tags, !.completed = c]

InitFilter ==
    /\ \E n \in 0..MaxTasks :
         \E tg \in [1..n -> TagVecs], c \in [1..n -> BOOLEAN] :
            tasks = [i \in 1..n |-> FilterTask(i, tg[i], c[i])]
    /\ \E inc \in OptOf(FilterTags), exc \in OptOf(FilterTags), sc \in BOOLEAN :
         args = [op |-> "filter", include_tag |-> inc, exclude_tag |-> exc,
                 show_completed |-> sc]
    /\ out = Pending
    /\ now = NoClock
    /\ log = << >>
    /\ next_id = Len(tasks) + 1
    /\ file = [tasks |-> tasks, next_id |-> Len(tasks) + 1]

\* TaskStorage::get_filtered_tasks, storage.rs:97-104, as list_tasks calls it.
FilterTasks ==
    /\ out = Pending
    /\ out' = Returned(filter_tasks(tasks, args.include_tag, args.exclude_tag,
                                    args.show_completed))
    /\ UNCHANGED <<tasks, args, now, log, next_id, file>>

NextFilter == FilterTasks

SpecFilter == InitFilter /\ [][NextFilter]_vars

\* ----------------------------------------------------------------- claim C4
HasTag(t, tag) == \E i \in DOMAIN t.tags : t.tags[i] = tag
Qualifies(t) ==
    /\ args.show_completed \/ ~t.completed
    /\ IsSome(args.include_tag) => HasTag(t, Unwrap(args.include_tag))
    /\ IsSome(args.exclude_tag) => ~HasTag(t, Unwrap(args.exclude_tag))

\* C4: filter_tasks returns exactly the tasks for which (show_completed or
\* not completed) and (no include tag, or the tags contain it) and (no exclude
\* tag, or the tags do not contain it), each once and in the order of the
\* input.  The task at position i of the input has id i.
C4_FilterExact ==
    out.done =>
        /\ \A k \in DOMAIN out.val :
              /\ out.val[k].id \in DOMAIN tasks
              /\ out.val[k] = tasks[out.val[k].id]
        /\ \A k, l \in DOMAIN out.val : k < l => out.val[k].id < out.val[l].id
        /\ {out.val[k].id : k \in DOMAIN out.val} =
              {i \in DOMAIN tasks : Qualifies(tasks[i])}

\* Three tasks filtered by an include and a different exclude tag, completed
\* tasks hidden: the first and the third are returned, the second (which carries
\* the excluded tag too) is dropped.
C4_Witness ==
    /\ out.done
    /\ Len(tasks) = 3
    /\ args.include_tag = Some("work") /\ args.exclude_tag = Some("urgent")
    /\ ~args.show_completed
    /\ tasks[2].tags = <<"urgent", "work">>
    /\ Len(out.val) = 2 /\ out.val[1].id = 1 /\ out.val[2].id = 3

\* ---------------------------------------------------------------- strings
UpperChars == <<"A", "B", "C", "D", "E", "F", "G", "H", "I", "J", "K", "L", "M",
                "N", "O", "P", "Q", "R", "S", "T", "U", "V", "W", "X", "Y", "Z">>
LowerChars == <<"a", "b", "c", "d", "e", "f", "g", "h", "i", "j", "k", "l", "m",
                "n", "o", "p", "q", "r", "s", "t", "u", "v", "w", "x", "y", "z">>
Digits == <<"0", "1", "2", "3", "4", "5", "6", "7", "8", "9">>

IsUpper(c) == \E i \in DOMAIN UpperChars : UpperChars[i] = c
IsLower(c) == \E i \in DOMAIN LowerChars : LowerChars[i] = c
IsDigit(c) == \E i \in DOMAIN Digits : Digits[i] = c
DigitVal(c) == (CHOOSE i \in DOMAIN Digits : Digits[i] = c) - 1
LowerChar(c) ==
    IF IsUpper(c) THEN LowerChars[CHOOSE i \in DOMAIN UpperChars : UpperChars[i] = c]
    ELSE c

\* str::to_lowercase, str::trim (date_parser.rs:22).
to_lowercase(s) == [i \in DOMAIN s |-> LowerChar(s[i])]

RECURSIVE trim_start(_)
trim_start(s) == IF s # << >> /\ Head(s) = " " THEN trim_start(Tail(s)) ELSE s

RECURSIVE trim_end(_)
trim_end(s) ==
    IF s # << >> /\ s[Len(s)] = " " THEN trim_end(SubSeq(s, 1, Len(s) - 1)) ELSE s

trim(s) == trim_end(trim_start(s))

StartsWith(s, p) == Len(s) >= Len(p) /\ SubSeq(s, 1, Len(p)) = p
DropChars(s, n) == SubSeq(s, n + 1, Len(s))

\* The value of a run of decimal digits.
RECURSIVE Decimal(_)
Decimal(ds) ==
    IF ds = << >> THEN 0
    ELSE Decimal(SubSeq(ds, 1, Len(ds) - 1)) * 10 + DigitVal(ds[Len(ds)])

\* --------------------------------------------------------------- calendar
\* chrono's proleptic Gregorian calendar, as NaiveDate::from_ymd_opt,
\* NaiveDate + Duration::days and Datelike::weekday use it.
IsLeapYear(y) == (y % 4 = 0 /\ y % 100 # 0) \/ y % 400 = 0

DaysInMonth(y, m) ==
    IF m = 2 THEN (IF IsLeapYear(y) THEN 29 ELSE 28)
    ELSE IF m \in {4, 6, 9, 11} THEN 30
    ELSE 31

Date(y, m, d) == [y |-> y, m |-> m, d |-> d]

\* NaiveDate::from_ymd_opt: None unless the day exists.  (The years of the
\* model are far inside chrono's range of years.)
from_ymd_opt(y, m, d) ==
    IF m \in 1..12 /\ d >= 1 /\ d <= DaysInMonth(y, m) THEN Some(Date(y, m, d)) ELSE None

NextDay(dt) ==
    IF dt.d < DaysInMonth(dt.y, dt.m) THEN Date(dt.y, dt.m, dt.d + 1)
    ELSE IF dt.m < 12 THEN Date(dt.y, dt.m + 1, 1)
    ELSE Date(dt.y + 1, 1, 1)

PrevDay(dt) ==
    IF dt.d > 1 THEN Date(dt.y, dt.m, dt.d - 1)
    ELSE IF dt.m > 1 THEN Date(dt.y, dt.m - 1, DaysInMonth(dt.y, dt.m - 1))
    ELSE Date(dt.y - 1, 12, 31)

\* date + chrono::Duration::days(n), a month at a time: within the month of
\* dt the day moves, beyond it the count goes on from the first day of the
\* next month (or the last day of the month before).
RECURSIVE AddDays(_, _)
AddDays(dt, n) ==
    IF n >= 0
    THEN IF dt.d + n <= DaysInMonth(dt.y, dt.m) THEN Date(dt.y, dt.m, dt.d + n)
         ELSE AddDays(NextDay(Date(dt.y, dt.m, DaysInMonth(dt.y, dt.m))),
                      n - (DaysInMonth(dt.y, dt.m) - dt.d) - 1)
    ELSE IF dt.d + n >= 1 THEN Date(dt.y, dt.m, dt.d + n)
         ELSE AddDays(PrevDay(Date(dt.y, dt.m, 1)), n + dt.d)

RECURSIVE DaysBeforeMonth(_, _)
DaysBeforeMonth(y, m) ==
    IF m = 1 THEN 0 ELSE DaysBeforeMonth(y, m - 1) + DaysInMonth(y, m - 1)

\* The number of the day, 0001-01-01 (a Monday) being day 1.
Ordinal(dt) ==
    365 * (dt.y - 1) + ((dt.y - 1) \div 4) - ((dt.y - 1) \div 100)
        + ((dt.y - 1) \div 400) + DaysBeforeMonth(dt.y, dt.m) + dt.d

\* Datelike::weekday().num_days_from_monday(): Monday is 0, Sunday 6.
num_days_from_monday(dt) == (Ordinal(dt) - 1) % 7

\* ------------------------------------------------- NaiveDate::parse_from_str
\* A format is the sequence of its items: "Y", "m" and "d" stand for %Y, %m
\* and %d, any other character for itself.  A numeric item skips leading white
\* space and takes the longest run of 1..width digits (width 4 for %Y, 2 for
\* %m and %d); a literal must be the next character; nothing may be left over.
\* (No input of the model has a sign before the year.)
RECURSIVE DigitRun(_, _)
DigitRun(s, width) ==
    IF width = 0 \/ s = << >> THEN 0
    ELSE IF ~IsDigit(Head(s)) THEN 0
    ELSE 1 + DigitRun(Tail(s), width - 1)

IsNumericItem(item) == item \in {"Y", "m", "d"}
ItemWidth(item) == IF item = "Y" THEN 4 ELSE 2

RECURSIVE ParseItems(_, _, _)
ParseItems(s, fmt, parsed) ==
    IF fmt = << >> THEN (IF s = << >> THEN Some(parsed) ELSE None)
    ELSE IF IsNumericItem(Head(fmt))
    THEN LET t == trim_start(s)
             k == DigitRun(t, ItemWidth(Head(fmt)))
         IN  IF k = 0 THEN None
             ELSE ParseItems(DropChars(t, k), Tail(fmt),
                             [parsed EXCEPT ![Head(fmt)] = Decimal(SubSeq(t, 1, k))])
    ELSE IF s # << >> /\ Head(s) = Head(fmt)
    THEN ParseItems(Tail(s), Tail(fmt), parsed)
    ELSE None

\* NaiveDate::parse_from_str(s, fmt): Some(date) for Ok(date), None for Err.
parse_from_str(s, fmt) ==
    LET p == ParseItems(s, fmt, [Y |-> 0, m |-> 0, d |-> 0])
    IN  IF IsSome(p) THEN from_ymd_opt(Unwrap(p).Y, Unwrap(p).m, Unwrap(p).d) ELSE None

\* ------------------------------------------------------------ date_parser
S_today == <<"t", "o", "d", "a", "y">>
S_tomorrow == <<"t", "o", "m", "o", "r", "r", "o", "w">>
S_in == <<"i", "n">>

\* The results of parse_date.  Ok(datetime) carries the calendar date, the
\* time of day and the return statement that produced it; Err carries the
\* string the message quotes.
OkAt(dt, time, via) == [ok |-> TRUE, date |-> dt, time |-> time, via |-> via]
\* Local.from_local_datetime(&date.and_hms_opt(23, 59, 59).unwrap()).unwrap()
EndOfDay(dt, via) == OkAt(dt, "23:59:59", via)
\* TodoError::DateParse(format!(..., date_str)), date_parser.rs:148-151: the
\* message quotes date_str and goes on with ExampleFormats.
ExampleFormats == "Try formats like: YYYY-MM-DD, today, tomorrow, monday, etc."
DateParseErr(date_str) ==
    [ok |-> FALSE, input |-> date_str, hint |-> ExampleFormats, via |-> "error"]

\* Mutant of formats: the day-first slash format tried before the month-first.
formats_DayFirst == <<<<"d", "/", "m", "/", "Y">>,
                      <<"m", "/", "d", "/", "Y">>,
                      <<"Y", "/", "m", "/", "d">>,
                      <<"m", "-", "d", "-", "Y">>,
                      <<"d", "-", "m", "-", "Y">>>>

\* date_parser.rs:40 and 46.
iso_format == <<"Y", "-", "m", "-", "d">>
formats == <<<<"m", "/", "d", "/", "Y">>,
             <<"d", "/", "m", "/", "Y">>,
             <<"Y", "/", "m", "/", "d">>,
             <<"m", "-", "d", "-", "Y">>,
             <<"d", "-", "m", "-", "Y">>>>

\* The weekday names of date_parser.rs:109-137, each with its target_weekday.
weekdays == <<<<<<"m", "o", "n", "d", "a", "y">>, 0>>,
              <<<<"m", "o", "n">>, 0>>,
              <<<<"t", "u", "e", "s", "d", "a", "y">>, 1>>,
              <<<<"t", "u", "e">>, 1>>,
              <<<<"w", "e", "d", "n", "e", "s", "d", "a", "y">>, 2>>,
              <<<<"w", "e", "d">>, 2>>,
              <<<<"t", "h", "u", "r", "s", "d", "a", "y">>, 3>>,
              <<<<"t", "h", "u">>, 3>>,
              <<<<"f", "r", "i", "d", "a", "y">>, 4>>,
              <<<<"f", "r", "i">>, 4>>,
              <<<<"s", "a", "t", "u", "r", "d", "a", "y">>, 5>>,
              <<<<"s", "a", "t">>, 5>>,
              <<<<"s", "u", "n", "d", "a", "y">>, 6>>,
              <<<<"s", "u", "n">>, 6>>>>
IsWeekdayName(s) == \E i \in DOMAIN weekdays : weekdays[i][1] = s
target_weekday(s) == weekdays[CHOOSE i \in DOMAIN weekdays : weekdays[i][1] = s][2]

\* word_to_number, date_parser.rs:225-239.
number_words == <<<<"o", "n", "e">>,
                 <<"t", "w", "o">>,
                 <<"t", "h", "r", "e", "e">>,
                 <<"f", "o", "u", "r">>,
                 <<"f", "i", "v", "e">>,
                 <<"s", "i", "x">>,
                 <<"s", "e", "v", "e", "n">>,
                 <<"e", "i", "g", "h", "t">>,
                 <<"n", "i", "n", "e">>,
                 <<"t", "e", "n">>>>
word_to_number(word) ==
    LET w == to_lowercase(word)
    IN  IF \E i \in DOMAIN number_words : number_words[i] = w
        THEN Some(CHOOSE i \in DOMAIN number_words : number_words[i] = w)
        ELSE None

\* str::parse::<i64>: an optional sign and one or more digits.  (The numbers
\* of the model have one or two digits: none overflows an i64.)
parse_i64(num) ==
    LET signed == num # << >> /\ Head(num) \in {"+", "-"}
        body == IF signed THEN Tail(num) ELSE num
    IN  IF body # << >> /\ \A i \in DOMAIN body : IsDigit(body[i])
        THEN Some(IF signed /\ Head(num) = "-" THEN 0 - Decimal(body) ELSE Decimal(body))
        ELSE None

day_units == {<<"d", "a", "y">>, <<"d", "a", "y", "s">>}
week_units == {<<"w", "e", "e", "k">>, <<"w", "e", "e", "k", "s">>}
month_units == {<<"m", "o", "n", "t", "h">>, <<"m", "o", "n", "t", "h", "s">>}
year_units == {<<"y", "e", "a", "r">>, <<"y", "e", "a", "r", "s">>}
\* Mutant of in_units: one more unit accepted.
in_units_Fortnights ==
    day_units \cup week_units \cup month_units \cup year_units
        \cup {<<"f", "o", "r", "t", "n", "i", "g", "h", "t", "s">>}

\* The units parse_in_n_unit accepts, date_parser.rs:212-214.
in_units == day_units \cup week_units \cup month_units \cup year_units

\* The position of the first space of s, 0 when it has none.
FirstSpace(s) ==
    IF \E i \in DOMAIN s : s[i] = " "
    THEN CHOOSE i \in DOMAIN s : s[i] = " " /\ \A j \in 1..(i - 1) : s[j] # " "
    ELSE 0

\* parse_in_n_unit, date_parser.rs:205-222: Some([n, unit]) or None.
parse_in_n_unit(s0) ==
    LET s == trim(s0)
    IN  IF ~StartsWith(s, S_in \o <<" ">>) THEN None
        ELSE LET rest == DropChars(s, 3)
                 sp == FirstSpace(rest)
             IN  IF sp = 0 THEN None
                 ELSE LET num == SubSeq(rest, 1, sp - 1)
                          unit == trim(DropChars(rest, sp))
                          n == IF IsSome(parse_i64(num)) THEN parse_i64(num)
                               ELSE word_to_number(num)
                      IN  IF ~IsSome(n) THEN None
                          ELSE IF unit \in in_units
                               THEN Some([n |-> Unwrap(n), unit |-> unit])
                               ELSE None

Min(x, y) == IF x <= y THEN x ELSE y

\* while m > 12 { y += 1; m -= 12; }, date_parser.rs:64-67.
RECURSIVE WrapMonths(_, _)
WrapMonths(y, m) == IF m > 12 THEN WrapMonths(y + 1, m - 12) ELSE [y |-> y, m |-> m]

\* Mutant of last_day: every fourth year a leap year.
last_day_EveryFourth(y, m) ==
    IF m = 2 THEN (IF y % 4 = 0 THEN 29 ELSE 28)
    ELSE IF m \in {4, 6, 9, 11} THEN 30 ELSE 31

\* let last_day = match m { ... }, date_parser.rs:69-89.
last_day(y, m) ==
    CASE m = 1 -> 31
      [] m = 2 -> (IF y % 4 = 0 /\ (y % 100 # 0 \/ y % 400 = 0) THEN 29 ELSE 28)
      [] m = 3 -> 31
      [] m = 4 -> 30
      [] m = 5 -> 31
      [] m = 6 -> 30
      [] m = 7 -> 31
      [] m = 8 -> 31
      [] m = 9 -> 30
      [] m = 10 -> 31
      [] m = 11 -> 30
      [] m = 12 -> 31
      [] OTHER -> 28

\* The "month" | "months" arm, date_parser.rs:61-92.
in_months(today, n) ==
    LET w == WrapMonths(today.y, today.m + n)
        d == Min(today.d, last_day(w.y, w.m))
        r == from_ymd_opt(w.y, w.m, d)
    IN  IF IsSome(r) THEN Unwrap(r) ELSE today

\* The "year" | "years" arm, date_parser.rs:93-96.
in_years(today, n) ==
    LET r == from_ymd_opt(today.y + n, today.m, today.d)
    IN  IF IsSome(r) THEN Unwrap(r) ELSE today

\* Mutant of in_n_unit_target: a week counted as one day.
in_n_unit_target_WeekAsDay(today, n, unit) ==
    CASE unit \in day_units \cup week_units -> AddDays(today, n)
      [] unit \in month_units -> in_months(today, n)
      [] unit \in year_units -> in_years(today, n)
      [] OTHER -> today

\* let target_date = match unit { ... }, date_parser.rs:58-98.
in_n_unit_target(today, n, unit) ==
    CASE unit \in day_units -> AddDays(today, n)
      [] unit \in week_units -> AddDays(today, n * 7)
      [] unit \in month_units -> in_months(today, n)
      [] unit \in year_units -> in_years(today, n)
      [] OTHER -> today

\* chrono_english::parse_date_string(&date_str, Local::now(), Dialect::Us),
\* date_parser.rs:105: the natural-language grammar of the chrono-english
\* crate.  The set of results it can give: Some(datetime) for Ok, None for
\* Err.
\*   - A word is a weekday when its first three letters name one.  A bare
\*     weekday, and "next <weekday>" in the US dialect, mean the next such day
\*     at 00:00:00: the coming one, and on that very weekday today if the
\*     clock reads exactly 00:00:00 and the same day next week at any later
\*     time (the time of day is not part of the state: both outcomes).
\*   - A phrase whose first word the grammar does not know (it knows numbers,
\*     weekdays, months, now, today, tomorrow, yesterday, next, last) is an
\*     error.
\*   - Of any other phrase the answer is not modelled: an error, or some
\*     datetime the model does not know (GrammarDatetime).
grammar_weekdays == <<<<<<"m", "o", "n">>, 0>>, <<<<"t", "u", "e">>, 1>>, <<<<"w", "e", "d">>, 2>>, <<<<"t", "h", "u">>, 3>>, <<<<"f", "r", "i">>, 4>>, <<<<"s", "a", "t">>, 5>>, <<<<"s", "u", "n">>, 6>>>>
grammar_months == {<<"j", "a", "n">>, <<"f", "e", "b">>, <<"m", "a", "r">>, <<"a", "p", "r">>, <<"m", "a", "y">>, <<"j", "u", "n">>, <<"j", "u", "l">>, <<"a", "u", "g">>, <<"s", "e", "p">>, <<"o", "c", "t">>, <<"n", "o", "v">>, <<"d", "e", "c">>}
grammar_keywords == {<<"n", "o", "w">>, S_today, S_tomorrow, <<"y", "e", "s", "t", "e", "r", "d", "a", "y">>, <<"n", "e", "x", "t">>, <<"l", "a", "s", "t">>}
S_next == <<"n", "e", "x", "t", " ">>
GrammarDatetime == OkAt(NoClock, "unknown", "chrono_english")
IsWord(s) == s # << >> /\ \A i \in DOMAIN s : IsLower(s[i])
IsGrammarWeekday(s) ==
    /\ IsWord(s) /\ Len(s) >= 3
    /\ \E i \in DOMAIN grammar_weekdays : grammar_weekdays[i][1] = SubSeq(s, 1, 3)
\* The first word of s: its letters up to the first character that is none.
RECURSIVE FirstWord(_)
FirstWord(s) ==
    IF s = << >> \/ ~IsLower(Head(s)) THEN << >>
    ELSE <<Head(s)>> \o FirstWord(Tail(s))
GrammarKnowsStart(s) ==
    \/ s # << >> /\ (IsDigit(Head(s)) \/ Head(s) \in {"-", "+"})
    \/ FirstWord(s) \in grammar_keywords
    \/ Len(FirstWord(s)) >= 3
         /\ \/ \E i \in DOMAIN grammar_weekdays :
                  grammar_weekdays[i][1] = SubSeq(FirstWord(s), 1, 3)
            \/ SubSeq(FirstWord(s), 1, 3) \in grammar_months
next_weekday(word, today) ==
    LET that == grammar_weekdays[CHOOSE i \in DOMAIN grammar_weekdays :
                    grammar_weekdays[i][1] = SubSeq(word, 1, 3)][2]
        diff == that - num_days_from_monday(today)
        At(n) == Some(OkAt(AddDays(today, n), "00:00:00", "chrono_english"))
    IN  IF diff > 0 THEN {At(diff)}
        ELSE IF diff < 0 THEN {At(diff + 7)}
        ELSE {At(0), At(7)}
chrono_english(s, today) ==
    IF IsGrammarWeekday(s) THEN next_weekday(s, today)
    ELSE IF StartsWith(s, S_next) /\ IsGrammarWeekday(DropChars(s, Len(S_next)))
    THEN next_weekday(DropChars(s, Len(S_next)), today)
    ELSE IF GrammarKnowsStart(s) THEN {None, Some(GrammarDatetime)}
    ELSE {None}

\* for format in &formats { ... }, date_parser.rs:46-53: the result of the
\* first format that parses, or None.
RECURSIVE try_formats(_, _)
try_formats(date_str, fmts) ==
    IF fmts = << >> THEN None
    ELSE IF IsSome(parse_from_str(date_str, Head(fmts)))
    THEN Some(EndOfDay(Unwrap(parse_from_str(date_str, Head(fmts))), Head(fmts)))
    ELSE try_formats(date_str, Tail(fmts))

\* The weekday fallback, date_parser.rs:125-146.
weekday_fallback(date_str, today) ==
    LET current_weekday == num_days_from_monday(today)
        target == target_weekday(date_str)
        days_ahead == IF target >= current_weekday THEN target - current_weekday
                      ELSE 7 - current_weekday + target
    IN  EndOfDay(AddDays(today, days_ahead), "weekday")

\* Mutant of tomorrow: no day added.
tomorrow_SameDay(today) == today

\* let tomorrow = now + chrono::Duration::days(1), date_parser.rs:32.
tomorrow(today) == AddDays(today, 1)

\* parse_date, date_parser.rs:21-155.  today is the date Local::now() reads,
\* grammar what chrono_english answers if it is asked.
parse_date(raw, today, grammar) ==
    LET date_str == to_lowercase(trim(raw))
    IN  IF date_str = S_today THEN EndOfDay(today, "today")
        ELSE IF date_str = S_tomorrow THEN EndOfDay(tomorrow(today), "tomorrow")
        ELSE IF IsSome(parse_from_str(date_str, iso_format))
        THEN EndOfDay(Unwrap(parse_from_str(date_str, iso_format)), iso_format)
        ELSE IF IsSome(try_formats(date_str, formats))
        THEN Unwrap(try_formats(date_str, formats))
        ELSE IF IsSome(parse_in_n_unit(date_str))
        THEN EndOfDay(in_n_unit_target(today, Unwrap(parse_in_n_unit(date_str)).n,
                                       Unwrap(parse_in_n_unit(date_str)).unit),
                      "in_n_unit")
        ELSE IF IsSome(grammar) THEN Unwrap(grammar)
        ELSE IF IsWeekdayName(date_str) THEN weekday_fallback(date_str, today)
        ELSE DateParseErr(date_str)

\* One call of parse_date(args.date_str), the clock reading `now`.
ParseDate ==
    /\ out = Pending
    /\ args.op = "parse_date"
    /\ \E g \in chrono_english(to_lowercase(trim(args.date_str)), now) :
          out' = Returned(parse_date(args.date_str, now, g))
    /\ UNCHANGED <<tasks, args, now, log, next_id, file>>

\* ------------------------------------------- parse_date on numeric strings
\* The inputs: three groups of digits joined by two slashes or two dashes,
\* and the two keywords as typed (any case, spaces around them).
DigitGroups == {<<"3">>, <<"0", "3">>, <<"0", "4">>, <<"1", "3">>, <<"2", "5">>, <<"3", "1">>, <<"2", "0", "2", "5">>}
KeywordInputs == {<<"t", "o", "d", "a", "y">>, <<"t", "o", "m", "o", "r", "r", "o", "w">>, <<" ", "T", "o", "d", "a", "y">>, <<"T", "O", "M", "O", "R", "R", "O", "W", " ">>}
FormatClocks == {Date(2024, 2, 28), Date(2024, 12, 31)}

InitFormats ==
    /\ tasks = << >>
    /\ \/ \E g1 \in DigitGroups, g2 \in DigitGroups, g3 \in DigitGroups, sep \in {"/", "-"} :
            args = [op |-> "parse_date",
                    date_str |-> g1 \o <<sep>> \o g2 \o <<sep>> \o g3]
       \/ \E k \in KeywordInputs : args = [op |-> "parse_date", date_str |-> k]
    /\ out = Pending
    /\ now \in FormatClocks
    /\ log = << >>
    /\ next_id = Len(tasks) + 1
    /\ file = [tasks |-> tasks, next_id |-> Len(tasks) + 1]

NextFormats == ParseDate

SpecFormats == InitFormats /\ [][NextFormats]_vars

\* ----------------------------------------------------------------- claim C5
\* A numeric input read field by field: its separator, its three groups, and
\* what it is under an order of fields ("m", "d", "Y" in some order): a date
\* when each group has at most as many digits as its field takes (4 for the
\* year, 2 for month and day) and the day exists.
SepOf(s) == IF \E i \in DOMAIN s : s[i] = "/" THEN "/" ELSE "-"
SepPos(s) == {i \in DOMAIN s : s[i] = SepOf(s)}
IsNumericInput(s) ==
    /\ Cardinality(SepPos(s)) = 2
    /\ \A i \in DOMAIN s : IsDigit(s[i]) \/ i \in SepPos(s)
GroupOf(s, k) ==
    LET p1 == CHOOSE i \in SepPos(s) : \A j \in SepPos(s) : i <= j
        p2 == CHOOSE i \in SepPos(s) : \A j \in SepPos(s) : i >= j
    IN  CASE k = 1 -> SubSeq(s, 1, p1 - 1)
          [] k = 2 -> SubSeq(s, p1 + 1, p2 - 1)
          [] k = 3 -> SubSeq(s, p2 + 1, Len(s))
FieldOf(s, order, f) == GroupOf(s, CHOOSE k \in 1..3 : order[k] = f)
ReadsAs(s, order) ==
    /\ \A k \in 1..3 : Len(GroupOf(s, k)) >= 1
    /\ Len(FieldOf(s, order, "Y")) <= 4
    /\ Len(FieldOf(s, order, "m")) <= 2
    /\ Len(FieldOf(s, order, "d")) <= 2
    /\ Decimal(FieldOf(s, order, "m")) \in 1..12
    /\ Decimal(FieldOf(s, order, "d")) \in
          1..DaysInMonth(Decimal(FieldOf(s, order, "Y")), Decimal(FieldOf(s, order, "m")))
DateAs(s, order) ==
    Date(Decimal(FieldOf(s, order, "Y")), Decimal(FieldOf(s, order, "m")),
         Decimal(FieldOf(s, order, "d")))
MonthFirst == <<"m", "d", "Y">>
DayFirst == <<"d", "m", "Y">>
YearFirst == <<"Y", "m", "d">>
\* The stages a numeric input can match, in the order C5 gives them.
StagesFor(s) ==
    IF SepOf(s) = "-" THEN <<YearFirst, MonthFirst, DayFirst>>
    ELSE <<MonthFirst, DayFirst, YearFirst>>
FirstStage(s) ==
    LET st == StagesFor(s)
    IN  IF \E k \in 1..3 : ReadsAs(s, st[k])
        THEN Some(st[CHOOSE k \in 1..3 :
                       ReadsAs(s, st[k]) /\ \A j \in 1..(k - 1) : ~ReadsAs(s, st[j])])
        ELSE None
FormatOf(order, sep) == <<order[1], sep, order[2], sep, order[3]>>

Ex_03_04_2025 == <<"0", "3", "/", "0", "4", "/", "2", "0", "2", "5">>
Ex_13_04_2025 == <<"1", "3", "/", "0", "4", "/", "2", "0", "2", "5">>

\* C5: parse_date answers with the first stage that matches, in the order
\* today, tomorrow, YYYY-MM-DD, MM/DD/YYYY, DD/MM/YYYY, YYYY/MM/DD, MM-DD-YYYY,
\* DD-MM-YYYY: a numeric input that reads as a date under one of these is
\* resolved by the first that reads it, at 23:59:59.  03/04/2025 is March 4,
\* 2025 and 13/04/2025, no month-first date, April 13, 2025.
C5_FirstStageWins ==
    out.done =>
        LET s == to_lowercase(trim(args.date_str))
        IN  /\ s = S_today => out.val = EndOfDay(now, "today")
            /\ s = S_tomorrow => out.val = EndOfDay(AddDays(now, 1), "tomorrow")
            /\ (IsNumericInput(s) /\ IsSome(FirstStage(s))) =>
                  out.val = EndOfDay(DateAs(s, Unwrap(FirstStage(s))),
                                     FormatOf(Unwrap(FirstStage(s)), SepOf(s)))
            /\ s = Ex_03_04_2025 => (out.val.ok /\ out.val.date = Date(2025, 3, 4))
            /\ s = Ex_13_04_2025 => (out.val.ok /\ out.val.date = Date(2025, 4, 13))

\* 03/04/2025, which reads as March 4 month-first and as April 3 day-first,
\* resolved month-first.
C5_Witness ==
    /\ out.done
    /\ args.date_str = Ex_03_04_2025
    /\ ReadsAs(args.date_str, MonthFirst) /\ ReadsAs(args.date_str, DayFirst)
    /\ DateAs(args.date_str, DayFirst) = Date(2025, 4, 3)
    /\ out.val.ok /\ out.val.date = Date(2025, 3, 4)
    /\ out.val.via = FormatOf(MonthFirst, "/")

\* ------------------------------------------ parse_date on relative phrases
\* The clock: the first week and the last days of every month of a year
\* before a leap year by the 400 rule (1999), of a leap year (2024) and of a
\* year before a century that is no leap year (2099).
ClockYears == {1999, 2024, 2099}
ClockDays == (1..7) \cup (28..31)

\* n in decimal digits.
RECURSIVE DecimalStr(_)
DecimalStr(n) ==
    IF n < 10 THEN <<Digits[n + 1]>>
    ELSE DecimalStr(n \div 10) \o <<Digits[(n % 10) + 1]>>

\* The inputs: a bare weekday name, or "in N <unit>" with N in digits or as
\* one of the words one..ten.  args.shape records what the string was built
\* from; parse_date reads args.date_str alone.
InitDate ==
    /\ tasks = << >>
    /\ \/ \E i \in DOMAIN weekdays :
            args = [op |-> "parse_date", date_str |-> weekdays[i][1],
                    shape |-> [kind |-> "weekday", n |-> weekdays[i][2], unit |-> << >>]]
       \/ \E n \in 0..MaxN, u \in in_units :
            args = [op |-> "parse_date",
                    date_str |-> S_in \o <<" ">> \o DecimalStr(n) \o <<" ">> \o u,
                    shape |-> [kind |-> "in", n |-> n, unit |-> u]]
       \/ \E n \in DOMAIN number_words, u \in in_units :
            args = [op |-> "parse_date",
                    date_str |-> S_in \o <<" ">> \o number_words[n] \o <<" ">> \o u,
                    shape |-> [kind |-> "in", n |-> n, unit |-> u]]
    /\ out = Pending
    /\ \E y \in ClockYears, m \in 1..12, d \in ClockDays :
          /\ d <= DaysInMonth(y, m)
          /\ now = Date(y, m, d)
    /\ log = << >>
    /\ next_id = Len(tasks) + 1
    /\ file = [tasks |-> tasks, next_id |-> Len(tasks) + 1]

NextDate == ParseDate

SpecDate == InitDate /\ [][NextDate]_vars

\* The length of a month by the Gregorian rule: February has 29 days exactly
\* when the year is divisible by 4 and not by 100, or divisible by 400.
LeapByRule(y) == (y % 4 = 0 /\ y % 100 # 0) \/ y % 400 = 0
MonthLength(y, m) ==
    IF m = 2 THEN (IF LeapByRule(y) THEN 29 ELSE 28)
    ELSE IF m \in {4, 6, 9, 11} THEN 30 ELSE 31
\* The month n months after that of today.
TargetMonth(today, n) ==
    LET k == (today.m - 1) + n
    IN  [y |-> today.y + (k \div 12), m |-> (k % 12) + 1]
AskedIn(units) ==
    out.done /\ args.shape.kind = "in" /\ args.shape.unit \in units
AtEndOfDay(dt) ==
    out.val.ok /\ out.val.date = dt /\ out.val.time = "23:59:59"

\* C6: a bare weekday name resolves to the first date on or after today that
\* falls on that weekday, which is today itself when today is that weekday.
FirstOnOrAfter(today, wd) ==
    AddDays(today, (wd - num_days_from_monday(today) + 7) % 7)
C6_WeekdayOnOrAfterToday ==
    (out.done /\ args.shape.kind = "weekday") =>
        /\ out.val.ok
        /\ out.val.date = FirstOnOrAfter(now, args.shape.n)

\* C7: "in N months", N >= 1, on any date gives the same day of the month N
\* months ahead at 23:59:59, the day clamped to the length of that month by
\* the Gregorian rule.
C7_MonthsClamped ==
    (AskedIn(month_units) /\ args.shape.n >= 1) =>
        LET t == TargetMonth(now, args.shape.n)
        IN  AtEndOfDay(Date(t.y, t.m, Min(now.d, MonthLength(t.y, t.m))))
\* 31 January 2024 and "in 1 month": 29 February 2024.
C7_Witness ==
    /\ AskedIn(month_units) /\ args.shape.n = 1
    /\ now = Date(2024, 1, 31)
    /\ AtEndOfDay(Date(2024, 2, 29))

\* C8: "in N years" gives the same month and day N years ahead at 23:59:59,
\* 29 February clamped to 28 February of the target year when that year is no
\* leap year: never the current date, never another year.
C8_YearsClamped ==
    AskedIn(year_units) =>
        AtEndOfDay(Date(now.y + args.shape.n, now.m,
                        Min(now.d, MonthLength(now.y + args.shape.n, now.m))))

MonthEndDays == 28..31
InitClock ==
    /\ tasks = << >>
    /\ args = NoArgs
    /\ out = Pending
    /\ \E y \in ClockYears, m \in 1..12, d \in MonthEndDays :
          /\ d <= DaysInMonth(y, m)
          /\ now = Date(y, m, d)
    /\ log = << >>
    /\ next_id = Len(tasks) + 1
    /\ file = [tasks |-> tasks, next_id |-> Len(tasks) + 1]

CallParseDate ==
    /\ Len(log) < MaxCalls
    /\ \E s \in KeywordInputs :
          \E g \in chrono_english(to_lowercase(trim(s)), now) :
             /\ args' = [op |-> "parse_date", date_str |-> s]
             /\ out' = Returned(parse_date(s, now, g))
             /\ log' = Append(log, [date_str |-> s, result |-> parse_date(s, now, g),
                                    at |-> now])
    /\ UNCHANGED <<tasks, now, next_id, file>>

\* Midnight passes between two calls.
Tick ==
    /\ log # << >>
    /\ Len(log) < MaxCalls
    /\ Ordinal(now) - Ordinal(log[1].at) < MaxTicks
    /\ now' = NextDay(now)
    /\ UNCHANGED <<tasks, args, out, log, next_id, file>>

NextClock == CallParseDate \/ Tick

SpecClock == InitClock /\ [][NextClock]_vars

AsksToday(c) == to_lowercase(trim(c.date_str)) = S_today
AsksTomorrow(c) == to_lowercase(trim(c.date_str)) = S_tomorrow
EveryCallEndOfDay ==
    \A i \in DOMAIN log : log[i].result.ok /\ log[i].result.time = "23:59:59"

\* C10 as stated: "today" and "tomorrow" always succeed at 23:59:59, and the
\* dates of any "today" call and any "tomorrow" call of a run differ by
\* exactly one day, whatever the clock did between the two calls.
C10_AlwaysOneDayApart ==
    /\ EveryCallEndOfDay
    /\ \A i, j \in DOMAIN log :
          (AsksToday(log[i]) /\ AsksTomorrow(log[j])) =>
              Ordinal(log[j].result.date) - Ordinal(log[i].result.date) = 1

\* C10, amended: "today" and "tomorrow" always succeed at 23:59:59; the date
\* of a "tomorrow" call is one day after the date of a "today" call plus the
\* days that passed on the clock from the "today" call to the "tomorrow" call:
\* exactly one day apart when the clock read the same date at both calls.
C10_OneDayApartOnSameDate ==
    /\ EveryCallEndOfDay
    /\ \A i, j \in DOMAIN log :
          (AsksToday(log[i]) /\ AsksTomorrow(log[j])) =>
              /\ Ordinal(log[j].result.date) - Ordinal(log[i].result.date)
                    = 1 + Ordinal(log[j].at) - Ordinal(log[i].at)
              /\ (log[i].at = log[j].at =>
                    log[j].result.date = NextDay(log[i].result.date))
\* Both calls on 31 December 2024: 31 December 2024 and 1 January 2025.
C10_Witness ==
    /\ Len(log) = 2
    /\ AsksToday(log[1]) /\ AsksTomorrow(log[2])
    /\ log[1].at = Date(2024, 12, 31) /\ log[2].at = Date(2024, 12, 31)
    /\ log[1].result = EndOfDay(Date(2024, 12, 31), "today")
    /\ log[2].result = EndOfDay(Date(2025, 1, 1), "tomorrow")

\* ------------------------------------------- parse_date, matched or failed
\* The inputs, by what they are: the keywords as typed, numeric dates of the
\* six formats, "in N <unit>" phrases, weekday names, phrases of the grammar,
\* strings that are none of these, and strings that start like a date or a
\* number but are no date of the six formats (the grammar's answer to them is
\* not modelled).
ParseKeywords == {<<"t", "o", "d", "a", "y">>,
    <<"t", "o", "m", "o", "r", "r", "o", "w">>,
    <<" ", "T", "o", "d", "a", "y">>,
    <<"T", "O", "M", "O", "R", "R", "O", "W", " ">>}
ParseNumeric == {<<"2", "0", "2", "5", "-", "0", "7", "-", "1", "5">>,
    <<"0", "3", "/", "0", "4", "/", "2", "0", "2", "5">>,
    <<"1", "3", "/", "0", "4", "/", "2", "0", "2", "5">>,
    <<"2", "0", "2", "5", "/", "0", "7", "/", "1", "5">>,
    <<"0", "7", "-", "1", "5", "-", "2", "0", "2", "5">>,
    <<"1", "5", "-", "0", "7", "-", "2", "0", "2", "5">>}
ParseRelative == {<<"i", "n", " ", "5", " ", "d", "a", "y", "s">>,
    <<"i", "n", " ", "t", "w", "o", " ", "w", "e", "e", "k", "s">>,
    <<"I", "n", " ", "1", " ", "M", "o", "n", "t", "h">>,
    <<" ", "i", "n", " ", "1", " ", "y", "e", "a", "r">>}
ParseWeekdays == {<<"F", "r", "i", "d", "a", "y">>,
    <<" ", "m", "o", "n", " ">>,
    <<"s", "u", "n", "d", "a", "y">>}
ParseGrammar == {<<"n", "e", "x", "t", " ", "f", "r", "i", "d", "a", "y">>,
    <<"N", "e", "x", "t", " ", "M", "o", "n", "d", "a", "y">>}
ParseGarbage == {<<"i", "n", "v", "a", "l", "i", "d">>,
    <<"i", "n", "v", "a", "l", "i", "d", "-", "g", "a", "r", "b", "a", "g", "e">>,
    <<" ", "I", "n", "v", "a", "l", "i", "d", "-", "G", "a", "r", "b", "a", "g", "e", " ">>,
    <<>>,
    <<"i", "n", " ", "5", " ", "f", "o", "r", "t", "n", "i", "g", "h", "t", "s">>,
    <<"i", "n", " ", "x", " ", "d", "a", "y", "s">>,
    <<"i", "n">>,
    <<"b", "u", "y", " ", "m", "i", "l", "k">>}
ParseUnsure == {<<"3", "1", "/", "3", "1", "/", "2", "0", "2", "5">>,
    <<"2", "0", "2", "5", "-", "1", "3", "-", "4", "5">>,
    <<"5">>}
ParseInputs ==
    [kind : {"keyword"}, s : ParseKeywords] \cup [kind : {"numeric"}, s : ParseNumeric]
        \cup [kind : {"in"}, s : ParseRelative] \cup [kind : {"weekday"}, s : ParseWeekdays]
        \cup [kind : {"grammar"}, s : ParseGrammar] \cup [kind : {"garbage"}, s : ParseGarbage]
        \cup [kind : {"unsure"}, s : ParseUnsure]

InitParse ==
    /\ tasks = << >>
    /\ \E i \in ParseInputs :
          args = [op |-> "parse_date", date_str |-> i.s,
                  shape |-> [kind |-> i.kind, n |-> 0, unit |-> << >>]]
    /\ out = Pending
    /\ \E d \in ClockDays :
          /\ d <= DaysInMonth(2024, 2)
          /\ now = Date(2024, 2, d)
    /\ log = << >>
    /\ next_id = Len(tasks) + 1
    /\ file = [tasks |-> tasks, next_id |-> Len(tasks) + 1]

NextParse == ParseDate

SpecParse == InitParse /\ [][NextParse]_vars

\* The stages of parse_date other than the grammar, on the normalised string.
FixedStageMatches(s) ==
    \/ s \in {S_today, S_tomorrow}
    \/ IsSome(parse_from_str(s, iso_format))
    \/ \E i \in DOMAIN formats : IsSome(parse_from_str(s, formats[i]))
    \/ IsSome(parse_in_n_unit(s))
    \/ IsWeekdayName(s)

\* C11: parse_date fails with the DateParse error exactly when every stage
\* fails (keywords, ISO, the five numeric formats, "in N <unit>", the grammar,
\* bare weekday name) and returns a point in time whenever a stage matches;
\* the error quotes the input trimmed and in lower case and names example
\* formats; "invalid-garbage" fails.
C11_ErrorIffAllStagesFail ==
    out.done =>
        LET s == to_lowercase(trim(args.date_str))
            kind == args.shape.kind
        IN  /\ FixedStageMatches(s) => out.val.ok
            /\ kind \in {"keyword", "numeric", "in", "weekday", "grammar"} => out.val.ok
            /\ kind = "garbage" => ~out.val.ok
            /\ \E g \in chrono_english(s, now) :
                  ~out.val.ok <=> (~FixedStageMatches(s) /\ g = None)
            /\ (out.val.ok /\ ~FixedStageMatches(s)) =>
                  Some(out.val) \in chrono_english(s, now)
            /\ ~out.val.ok =>
                  /\ kind \in {"garbage", "unsure"}
                  /\ out.val.input = s
                  /\ out.val.hint = ExampleFormats
            /\ s = <<"i", "n", "v", "a", "l", "i", "d", "-", "g", "a", "r", "b", "a", "g", "e">> => ~out.val.ok
\* " Invalid-Garbage " fails, and the error quotes "invalid-garbage".
C11_Witness ==
    /\ out.done
    /\ args.date_str = <<" ", "I", "n", "v", "a", "l", "i", "d", "-", "G", "a", "r", "b", "a", "g", "e", " ">>
    /\ ~out.val.ok
    /\ out.val.input = <<"i", "n", "v", "a", "l", "i", "d", "-", "g", "a", "r", "b", "a", "g", "e">>

\* ------------------------------------------------- parse_date_from_words
\* window.join(" "), date_parser.rs:162.
RECURSIVE join(_)
join(window) ==
    IF window = << >> THEN << >>
    ELSE IF Len(window) = 1 THEN Head(window)
    ELSE Head(window) \o <<" ">> \o join(Tail(window))

\* words.windows(window_size), date_parser.rs:161: the windows from left to
\* right, none when words is shorter than the window.
windows(words, window_size) ==
    [i \in 1..(IF Len(words) >= window_size THEN Len(words) - window_size + 1 ELSE 0) |->
        SubSeq(words, i, i + window_size - 1)]

\* (1..=4).rev(), date_parser.rs:160.
window_sizes == <<4, 3, 2, 1>>

\* Mutant of valid: the single word compared in lower case.
valid_AnyCase(w) ==
    to_lowercase(w) \in ({S_today, S_tomorrow} \cup {weekdays[i][1] : i \in DOMAIN weekdays})

\* let valid = matches!(w, "today" | "tomorrow" | "monday" | ...),
\* date_parser.rs:169-187: the phrase as joined, not normalised.
valid(w) ==
    w \in ({S_today, S_tomorrow} \cup {weekdays[i][1] : i \in DOMAIN weekdays})

\* Mutant of keep_best: a window of the same size replaces the match.
keep_best_SameSizeReplaces(best, window_size, dt) ==
    IF best = None \/ window_size >= Unwrap(best).size
    THEN Some([size |-> window_size, dt |-> dt])
    ELSE best

\* if best.is_none() || window_size > best.0 { best = Some((window_size, dt)) },
\* date_parser.rs:193-195.
keep_best(best, window_size, dt) ==
    IF best = None \/ window_size > Unwrap(best).size
    THEN Some([size |-> window_size, dt |-> dt])
    ELSE best

\* What the grammar answers to phrase in this call: of the phrases whose
\* answer is not modelled it accepts those of accepts; on the weekday a phrase
\* names it answers today if the clock reads 00:00:00 (midnight) and the same
\* day next week otherwise.
grammar_answer(phrase, today, accepts, midnight) ==
    LET answers == chrono_english(to_lowercase(trim(phrase)), today)
    IN  IF Cardinality(answers) = 1 THEN CHOOSE g \in answers : TRUE
        ELSE IF None \in answers
        THEN (IF phrase \in accepts THEN Some(GrammarDatetime) ELSE None)
        ELSE CHOOSE g \in answers :
                \A h \in answers :
                    IF midnight THEN Ordinal(Unwrap(g).date) <= Ordinal(Unwrap(h).date)
                    ELSE Ordinal(Unwrap(g).date) >= Ordinal(Unwrap(h).date)

\* The calls of parse_date the two loops make, in their order
\* (date_parser.rs:160-163): every window of size 4, then 3, 2 and 1.
RECURSIVE window_calls(_, _, _, _, _)
window_calls(words, sizes, today, accepts, midnight) ==
    IF sizes = << >> THEN << >>
    ELSE LET ws == windows(words, Head(sizes))
         IN  [i \in DOMAIN ws |->
                 [date_str |-> join(ws[i]),
                  result |-> parse_date(join(ws[i]), today,
                                        grammar_answer(join(ws[i]), today, accepts, midnight)),
                  at |-> today, size |-> Head(sizes), pos |-> i]]
             \o window_calls(words, Tail(sizes), today, accepts, midnight)

\* The body of the loops, date_parser.rs:163-199, over the calls in order.
RECURSIVE scan(_, _)
scan(calls, best) ==
    IF calls = << >> THEN best
    ELSE LET c == Head(calls)
         IN  IF ~c.result.ok THEN scan(Tail(calls), best)
             ELSE IF c.size = 1 /\ ~valid(c.date_str) THEN scan(Tail(calls), best)
             ELSE scan(Tail(calls), keep_best(best, c.size, c.result))

\* parse_date_from_words, date_parser.rs:158-202: best.map(|(_, dt)| dt).
parse_date_from_words(calls) ==
    LET best == scan(calls, None)
    IN  IF IsSome(best) THEN Some(Unwrap(best).dt) ELSE None

\* The descriptions: up to MaxChunks of these phrases one after the other.
Chunks == {<<<<"b", "u", "y">>>>,
    <<<<"i", "n">>, <<"5">>, <<"d", "a", "y", "s">>>>,
    <<<<"f", "r", "i", "d", "a", "y">>>>,
    <<<<"5">>>>}
\* Descriptions besides: a weekday with a capital, two keywords, a phrase of
\* the grammar alone and in a sentence.
ExtraWordLists == {<<<<"F", "r", "i", "d", "a", "y">>>>,
    <<<<"f", "r", "i", "d", "a", "y">>, <<"t", "o", "d", "a", "y">>>>,
    <<<<"n", "e", "x", "t">>, <<"f", "r", "i", "d", "a", "y">>>>,
    <<<<"b", "u", "y">>, <<"m", "i", "l", "k">>, <<"n", "e", "x", "t">>, <<"f", "r", "i", "d", "a", "y">>>>}
RECURSIVE WordLists(_)
WordLists(n) ==
    IF n = 0 THEN {<< >>}
    ELSE LET shorter == WordLists(n - 1)
         IN  shorter \cup {w \o c : w \in shorter, c \in Chunks}

\* The phrases of words whose result depends on an answer of the grammar that
\* is not modelled.
UnsurePhrases(words, today) ==
    {p \in {join(SubSeq(words, i, j)) : i \in DOMAIN words, j \in DOMAIN words} :
        /\ p # << >>
        /\ chrono_english(to_lowercase(trim(p)), today) = {None, Some(GrammarDatetime)}
        /\ ~parse_date(p, today, None).ok}

\* Whether the clock reads 00:00:00 matters to a phrase that names today's
\* weekday, and to no other.
MidnightChoices(words, today) ==
    IF \E i \in DOMAIN words, j \in DOMAIN words :
          LET answers == chrono_english(to_lowercase(trim(join(SubSeq(words, i, j)))), today)
          IN  None \notin answers /\ Cardinality(answers) = 2
    THEN BOOLEAN ELSE {FALSE}

\* Thursday 1 and Friday 2 February 2024.
WordClocks == {Date(2024, 2, 1), Date(2024, 2, 2)}

InitWords ==
    /\ tasks = << >>
    /\ \E w \in WordLists(MaxChunks) \cup ExtraWordLists :
          args = [op |-> "parse_date_from_words", words |-> w]
    /\ out = Pending
    /\ now \in WordClocks
    /\ log = << >>
    /\ next_id = Len(tasks) + 1
    /\ file = [tasks |-> tasks, next_id |-> Len(tasks) + 1]

\* The calls when the grammar accepts the phrases of accepts: those of calls,
\* made with the grammar rejecting every phrase whose answer is not modelled,
\* with the grammar's datetime as the result of the phrases of accepts.
with_accepts(calls, accepts) ==
    [i \in DOMAIN calls |->
        IF calls[i].date_str \in accepts
        THEN [calls[i] EXCEPT !.result = GrammarDatetime]
        ELSE calls[i]]

\* One call of parse_date_from_words(args.words); log keeps the calls of
\* parse_date it made.
ParseDateFromWords ==
    /\ out = Pending
    /\ args.op = "parse_date_from_words"
    /\ \E midnight \in MidnightChoices(args.words, now) :
          \E rejecting \in {window_calls(args.words, window_sizes, now, {}, midnight)},
             accepts \in SUBSET UnsurePhrases(args.words, now) :
             \E calls \in {with_accepts(rejecting, accepts)} :
                /\ log' = calls
                /\ out' = Returned(parse_date_from_words(calls))
    /\ UNCHANGED <<tasks, args, now, next_id, file>>

NextWords == ParseDateFromWords

SpecWords == InitWords /\ [][NextWords]_vars

\* The single tokens the phrase extractor takes for a date.
SingleTokenKeywords ==
    {<<"t", "o", "d", "a", "y">>, <<"t", "o", "m", "o", "r", "r", "o", "w">>,
     <<"m", "o", "n", "d", "a", "y">>, <<"t", "u", "e", "s", "d", "a", "y">>,
     <<"w", "e", "d", "n", "e", "s", "d", "a", "y">>, <<"t", "h", "u", "r", "s", "d", "a", "y">>,
     <<"f", "r", "i", "d", "a", "y">>, <<"s", "a", "t", "u", "r", "d", "a", "y">>,
     <<"s", "u", "n", "d", "a", "y">>, <<"m", "o", "n">>, <<"t", "u", "e">>, <<"w", "e", "d">>,
     <<"t", "h", "u">>, <<"f", "r", "i">>, <<"s", "a", "t">>, <<"s", "u", "n">>}
\* A window is accepted when parse_date succeeds on it and, if it is a single
\* token, the token is one of the keywords.
Accepted(c) == c.result.ok /\ (c.size > 1 \/ c.date_str \in SingleTokenKeywords)
\* parse_date was called on every window of 1 to 4 tokens, and on no other.
EveryWindowTried ==
    /\ {<<log[i].size, log[i].pos>> : i \in DOMAIN log}
          = {<<k, p>> \in (1..4) \X (1..Len(args.words)) : p + k - 1 <= Len(args.words)}
    /\ \A i \in DOMAIN log :
          log[i].date_str = join(SubSeq(args.words, log[i].pos, log[i].pos + log[i].size - 1))
    /\ \A i, j \in DOMAIN log : i # j => <<log[i].size, log[i].pos>> # <<log[j].size, log[j].pos>>

\* C12: parse_date_from_words returns the parse of the accepted window of the
\* largest size and, among those, of the leftmost; it returns None, and never
\* an error, exactly when no window of any size is accepted.
C12_LargestLeftmostWindow ==
    out.done =>
        /\ EveryWindowTried
        /\ IsSome(out.val) => Unwrap(out.val).ok
        /\ IF \E i \in DOMAIN log : Accepted(log[i])
           THEN \E i \in DOMAIN log :
                   /\ Accepted(log[i])
                   /\ \A j \in DOMAIN log :
                         Accepted(log[j]) =>
                            \/ log[j].size < log[i].size
                            \/ log[j].size = log[i].size /\ log[j].pos >= log[i].pos
                   /\ out.val = Some(log[i].result)
           ELSE out.val = None
\* "friday in 5 days" on a Thursday, the four words together rejected: the
\* three-word "in 5 days" is returned, not the accepted "friday" to its left.
C12_Witness ==
    /\ out.done
    /\ args.words = <<<<"f", "r", "i", "d", "a", "y">>, <<"i", "n">>, <<"5">>, <<"d", "a", "y", "s">>>>
    /\ now = Date(2024, 2, 1)
    /\ out.val = Some(EndOfDay(Date(2024, 2, 6), "in_n_unit"))
    /\ \E i \in DOMAIN log :
          /\ log[i].size = 1 /\ log[i].pos = 1 /\ Accepted(log[i])
          /\ log[i].result.date = Date(2024, 2, 2)

\* C13: a window of a single token is accepted only if the token is,
\* character for character, today, tomorrow, a full weekday name or a
\* three-letter abbreviation, even when parse_date succeeds on it: ["friday"]
\* gives a result, ["5"], ["Friday"] and any other lone word give None.
C13_SingleTokenAllowList ==
    out.done =>
        /\ Len(args.words) = 1 =>
              (IsSome(out.val) <=> args.words[1] \in SingleTokenKeywords)
        /\ ( /\ \A i \in DOMAIN log : log[i].size > 1 => ~log[i].result.ok
             /\ \A i \in DOMAIN log :
                   log[i].size = 1 => log[i].date_str \notin SingleTokenKeywords )
              => out.val = None
        /\ args.words = <<<<"f", "r", "i", "d", "a", "y">>>> => IsSome(out.val)
        /\ args.words = <<<<"5">>>> => out.val = None
\* ["Friday"]: parse_date reads it, the extractor returns None.
C13_Witness ==
    /\ out.done
    /\ args.words = <<<<"F", "r", "i", "d", "a", "y">>>>
    /\ Len(log) = 1 /\ log[1].result.ok
    /\ out.val = None

\* ------------------------------------------------------------ the commands
\* Every run of the program loads the storage from the data file, executes
\* one command on it and, if the command succeeded, saves the storage to the
\* file (main.rs:34-113).  tasks and next_id are the storage in memory when
\* the run ends, file what the data file holds.  An instant (created_at,
\* completed_at, due_date) is a number of seconds after 00:00:00 of
\* StorageToday, the day on which all commands are run; now is the instant the
\* clock reads, which a run may find unchanged since the run before.
StorageToday == Date(2024, 2, 28)
instant(dt) ==
    (Ordinal(dt.date) - Ordinal(StorageToday)) * 86400
        + (IF dt.time = "23:59:59" THEN 86399 ELSE 0)

Storage(ts, nid) == [tasks |-> ts, next_id |-> nid]
\* TaskStorage::default, storage.rs:16-23.
TaskStorage_default == Storage(<< >>, 1)

CommandOk(storage) == [ok |-> TRUE, err |-> "none", storage |-> storage]
CommandErr(kind, storage) == [ok |-> FALSE, err |-> kind, storage |-> storage]

\* self.tasks.len() in place of self.next_id: an id is free again after a delete.
storage_add_task_CountsTasks(storage, task) ==
    Storage(Append(storage.tasks, [task EXCEPT !.id = Len(storage.tasks) + 1]),
            Len(storage.tasks) + 2)

\* TaskStorage::add_task, storage.rs:66-72.
storage_add_task(storage, task) ==
    Storage(Append(storage.tasks, [task EXCEPT !.id = storage.next_id]),
            storage.next_id + 1)

\* iter().position(|task| task.id == id), storage.rs:81-83 and 87-91: the
\* index of the first task with the id, 0 for None.
position(ts, id) ==
    IF \E i \in DOMAIN ts : ts[i].id = id
    THEN CHOOSE i \in DOMAIN ts : ts[i].id = id /\ \A j \in 1..(i - 1) : ts[j].id # id
    ELSE 0

\* TaskStorage::delete_task, storage.rs:86-94.
delete_task(storage, id) ==
    LET index == position(storage.tasks, id)
    IN  IF index = 0 THEN CommandErr("TaskNotFound", storage)
        ELSE CommandOk(Storage(SubSeq(storage.tasks, 1, index - 1)
                                  \o SubSeq(storage.tasks, index + 1, Len(storage.tasks)),
                               storage.next_id))

\* The flag alone: the completion instant is not recorded.
complete_FlagOnly(task, at) == [task EXCEPT !.completed = TRUE]

\* Task::complete, task.rs:50-53.
complete(task, at) == [task EXCEPT !.completed = TRUE, !.completed_at = Some(at)]

\* Without the check of task.completed: every complete command stamps.
complete_task_Restamps(storage, id, at) ==
    LET index == position(storage.tasks, id)
    IN  IF index = 0 THEN CommandErr("TaskNotFound", storage)
        ELSE CommandOk([storage EXCEPT !.tasks[index] = complete(@, at)])

\* complete_task, main.rs:190-202.
complete_task(storage, id, at) ==
    LET index == position(storage.tasks, id)
    IN  IF index = 0 THEN CommandErr("TaskNotFound", storage)
        ELSE IF storage.tasks[index].completed THEN CommandOk(storage)
        ELSE CommandOk([storage EXCEPT !.tasks[index] = complete(@, at)])

\* A due string is the text the user typed, or the RFC 3339 text of a
\* datetime (to_rfc3339, main.rs:63), held as the instant it spells out.
Rfc3339(t) == [rfc3339 |-> t]
\* DateTime::parse_from_rfc3339(&due_str), main.rs:144: the texts the user
\* types in the model ("today", "invalid") are no RFC 3339.
parse_from_rfc3339(due_str) ==
    IF DOMAIN due_str = {"rfc3339"} THEN Some(due_str.rfc3339) ELSE None

\* What parse_date can answer to the due strings of the model on StorageToday.
S_invalid == <<"i", "n", "v", "a", "l", "i", "d">>
DueStrings == {S_today, S_invalid}
due_results ==
    [s \in DueStrings |->
        {parse_date(s, StorageToday, g) :
            g \in chrono_english(to_lowercase(trim(s)), StorageToday)}]

\* for tag in &tags { if tag.trim().is_empty() { return Err(InvalidTag) } },
\* main.rs:131-135 and 221-225.
has_empty_tag(tags) == \E i \in DOMAIN tags : trim(tags[i]) = << >>
\* !(1..=5).contains(&p), main.rs:124-128 and 214-218.
invalid_priority(priority) == IsSome(priority) /\ Unwrap(priority) \notin 1..5

RECURSIVE trim_all(_)
trim_all(tags) ==
    IF tags = << >> THEN << >> ELSE <<trim(Head(tags))>> \o trim_all(Tail(tags))

\* add_task, main.rs:116-155; parsed is what parse_date answers to the due
\* string if it is asked.
add_task(storage, description, priority, due, tags, at, parsed) ==
    IF invalid_priority(priority) THEN CommandErr("InvalidPriority", storage)
    ELSE IF has_empty_tag(tags) THEN CommandErr("InvalidTag", storage)
    ELSE LET task == [TaskNew(0, description, at) EXCEPT
                         !.priority = priority, !.tags = trim_all(tags)]
         IN  IF ~IsSome(due) THEN CommandOk(storage_add_task(storage, task))
             ELSE IF IsSome(parse_from_rfc3339(Unwrap(due)))
             THEN CommandOk(storage_add_task(storage,
                      [task EXCEPT !.due_date = parse_from_rfc3339(Unwrap(due))]))
             ELSE IF parsed.ok
             THEN CommandOk(storage_add_task(storage,
                      [task EXCEPT !.due_date = Some(instant(parsed))]))
             ELSE CommandErr("DateParse", storage)

\* if !task.tags.contains(&tag) { task.tags.push(tag) }, main.rs:247-254.
RECURSIVE push_new_tags(_, _)
push_new_tags(have, tags) ==
    IF tags = << >> THEN have
    ELSE LET tag == trim(Head(tags))
         IN  push_new_tags(IF \E i \in DOMAIN have : have[i] = tag THEN have
                           ELSE Append(have, tag),
                           Tail(tags))

\* edit_task, main.rs:205-257: the description and the priority are assigned
\* before the due string is parsed, the tags after.
edit_task(storage, id, description, priority, due, tags, parsed) ==
    IF invalid_priority(priority) THEN CommandErr("InvalidPriority", storage)
    ELSE IF has_empty_tag(tags) THEN CommandErr("InvalidTag", storage)
    ELSE LET index == position(storage.tasks, id)
         IN  IF index = 0 THEN CommandErr("TaskNotFound", storage)
             ELSE LET t0 == storage.tasks[index]
                      t1 == IF IsSome(description)
                            THEN [t0 EXCEPT !.description = Unwrap(description)] ELSE t0
                      t2 == IF IsSome(priority) THEN [t1 EXCEPT !.priority = priority] ELSE t1
                  IN  IF IsSome(due) /\ ~parsed.ok
                      THEN CommandErr("DateParse", [storage EXCEPT !.tasks[index] = t2])
                      ELSE LET t3 == IF IsSome(due)
                                     THEN [t2 EXCEPT !.due_date = Some(instant(parsed))]
                                     ELSE t2
                               t4 == [t3 EXCEPT !.tags = push_new_tags(@, tags)]
                           IN  CommandOk([storage EXCEPT !.tasks[index] = t4])

\* The Add arm of run, main.rs:45-57: a word that starts with '@' and has more
\* than that character is a tag, every other word stays in the description.
RECURSIVE desc_words(_)
desc_words(description) ==
    IF description = << >> THEN << >>
    ELSE IF Head(Head(description)) = "@" /\ Len(Head(description)) > 1
    THEN desc_words(Tail(description))
    ELSE <<Head(description)>> \o desc_words(Tail(description))
RECURSIVE parsed_tags(_, _)
parsed_tags(description, tags) ==
    IF description = << >> THEN tags
    ELSE IF Head(Head(description)) = "@" /\ Len(Head(description)) > 1
    THEN LET tag == Tail(Head(description))
         IN  parsed_tags(Tail(description),
                         IF \E i \in DOMAIN tags : tags[i] = tag THEN tags
                         ELSE Append(tags, tag))
    ELSE parsed_tags(Tail(description), tags)

\* parse_date_from_words(&word_refs), main.rs:62: what it can return for the
\* words of a description on StorageToday.
phrase_due(words) ==
    {parse_date_from_words(
         with_accepts(window_calls(words, window_sizes, StorageToday, {}, midnight), accepts)) :
        accepts \in SUBSET UnsurePhrases(words, StorageToday),
        midnight \in MidnightChoices(words, StorageToday)}

S_buy == <<"b", "u", "y">>
S_call == <<"c", "a", "l", "l">>
S_work == <<"w", "o", "r", "k">>
S_home == <<"h", "o", "m", "e">>

\* The add commands: one with a tag option; one with a tag and a date in its
\* words and a priority; one with a due string no stage reads; one with a
\* priority out of range; one with a blank tag.
AddInputs ==
    {[description |-> <<S_buy>>, priority |-> None, due |-> None,
      tags |-> <<<<" ">> \o S_work>>],
     [description |-> <<S_buy, <<"@">> \o S_work, S_today>>, priority |-> Some(1),
      due |-> None, tags |-> << >>],
     [description |-> <<S_buy>>, priority |-> None, due |-> Some(S_invalid), tags |-> << >>],
     [description |-> <<S_buy>>, priority |-> Some(6), due |-> None, tags |-> << >>],
     [description |-> <<S_buy>>, priority |-> None, due |-> None, tags |-> <<<<" ">>>>]}
add_phrase_due == [a \in AddInputs |-> phrase_due(desc_words(a.description))]

\* The edit commands: all four fields, with a new tag; a tag alone, which the
\* task has; a new description and priority with a due string no stage reads;
\* a priority out of range; a blank tag.
EditInputs ==
    {[description |-> Some(S_call), priority |-> Some(2), due |-> Some(S_today),
      tags |-> <<S_work, S_home>>],
     [description |-> None, priority |-> None, due |-> None, tags |-> <<<<" ">> \o S_work>>],
     [description |-> Some(S_call), priority |-> Some(2), due |-> Some(S_invalid),
      tags |-> <<S_work>>],
     [description |-> Some(S_call), priority |-> Some(6), due |-> None, tags |-> << >>],
     [description |-> Some(S_call), priority |-> None, due |-> None, tags |-> <<<<" ">>>>]}

\* No call of parse_date.
NotParsed == [ok |-> FALSE, input |-> << >>, via |-> "none"]
ParsedDue(due) ==
    IF IsSome(due) /\ ~IsSome(parse_from_rfc3339(Unwrap(due)))
    THEN due_results[Unwrap(due)] ELSE {NotParsed}

InitStorage ==
    /\ tasks = << >>
    /\ next_id = 1
    /\ file = TaskStorage_default
    /\ args = NoArgs
    /\ out = Pending
    /\ now = 1
    /\ log = << >>

\* What a run leaves: the storage in memory, the file written if the command
\* succeeded (the ? of main.rs:69, 83, 95, 101 returns before save_to_file).
Ran(op, r) ==
    /\ tasks' = r.storage.tasks
    /\ next_id' = r.storage.next_id
    /\ file' = IF r.ok THEN r.storage ELSE file
    /\ args' = [op |-> op]
    /\ out' = Returned([ok |-> r.ok, err |-> r.err])
    /\ UNCHANGED <<now, log>>

\* todo add, main.rs:39-72.
RunAdd ==
    /\ file.next_id <= MaxAdds
    /\ \E a \in AddInputs :
          \E phrase \in (IF IsSome(a.due) THEN {None} ELSE add_phrase_due[a]) :
             LET due == IF IsSome(a.due) THEN a.due
                        ELSE IF IsSome(phrase) THEN Some(Rfc3339(instant(Unwrap(phrase))))
                        ELSE None
             IN  \E parsed \in ParsedDue(due) :
                    Ran("add", add_task(file, trim(join(desc_words(a.description))),
                                        a.priority, due,
                                        parsed_tags(a.description, a.tags), now, parsed))

\* todo complete, main.rs:82-86.
RunComplete ==
    \E id \in 1..MaxAdds : Ran("complete", complete_task(file, id, now))

\* todo edit, main.rs:88-98.
RunEdit ==
    \E id \in 1..MaxAdds, e \in EditInputs :
       \E parsed \in ParsedDue(e.due) :
          Ran("edit", edit_task(file, id, e.description, e.priority, e.due, e.tags, parsed))

\* todo delete, main.rs:100-104.
RunDelete ==
    \E id \in 1..MaxAdds : Ran("delete", delete_task(file, id))

\* Time passes between two runs: the process has exited (main.rs:24-31),
\* the next one will load the file (main.rs:36).
Advance ==
    /\ now < MaxStamp
    /\ now' = now + 1
    /\ tasks' = file.tasks
    /\ next_id' = file.next_id
    /\ args' = NoArgs
    /\ out' = Pending
    /\ UNCHANGED <<log, file>>

Next == RunAdd \/ RunComplete \/ RunEdit \/ RunDelete \/ Advance

Spec == InitStorage /\ [][Next]_vars

\* ------------------------------------------------------------------ C14
\* C14: for any two tasks held in the same storage, Task::cmp says Equal
\* exactly when the two have the same id.
C14_EqualIffSameId ==
    \A i \in DOMAIN tasks : \A j \in DOMAIN tasks :
        (cmp(tasks[i], tasks[j]) = "Equal") <=> (tasks[i].id = tasks[j].id)

\* ------------------------------------------------------------------ C15
StoredIds(ts) == {ts[i].id : i \in DOMAIN ts}
IdsInOrder(storage) ==
    /\ \A i \in DOMAIN storage.tasks :
          storage.tasks[i].id >= 1 /\ storage.tasks[i].id < storage.next_id
    /\ \A i \in DOMAIN storage.tasks : \A j \in DOMAIN storage.tasks :
          storage.tasks[i].id = storage.tasks[j].id => i = j
\* One run, from the storage it loads (file) to the storage it leaves in
\* memory and the one it leaves in the file.
IdsStep ==
    /\ file'.next_id >= file.next_id
    /\ next_id' >= file.next_id
    /\ \A id \in StoredIds(tasks') \ StoredIds(file.tasks) :
          /\ id = file.next_id
          /\ next_id' = id + 1
          /\ \A old \in StoredIds(file.tasks) : id > old
    /\ \A id \in StoredIds(file'.tasks) \ StoredIds(file.tasks) :
          id = file.next_id /\ file'.next_id = id + 1

\* C15: from the default storage, after any add, complete, edit and delete
\* commands the stored ids are positive, pairwise distinct and smaller than
\* next_id; next_id never decreases and an id that enters the storage is the
\* next_id of that moment, greater than every id stored, so that an id once
\* given (and since smaller than next_id) is not given again after a delete.
C15_IdsUniqueAndIncreasing ==
    /\ [](IdsInOrder(file) /\ IdsInOrder(Storage(tasks, next_id)))
    /\ [][IdsStep]_vars
\* An add succeeded after task 1 was deleted: the storage holds task 2 alone.
C15_Witness ==
    /\ args = [op |-> "add"]
    /\ out.done /\ out.val.ok
    /\ Len(file.tasks) = 1
    /\ file.tasks[1].id = 2
    /\ file.next_id = 3

\* ------------------------------------------------------------------ C16
\* C16: from the default storage, in every state reached by add, complete,
\* edit and delete commands each stored task has completed_at set exactly
\* when its completed flag is true.
C16_CompletedAtIffCompleted ==
    /\ \A i \in DOMAIN tasks : IsSome(tasks[i].completed_at) <=> tasks[i].completed
    /\ \A i \in DOMAIN file.tasks :
          IsSome(file.tasks[i].completed_at) <=> file.tasks[i].completed
\* A completed task next to one that is not, after a complete command.
C16_Witness ==
    /\ args = [op |-> "complete"]
    /\ out.done /\ out.val.ok
    /\ \E i \in DOMAIN file.tasks :
          file.tasks[i].completed /\ file.tasks[i].completed_at = Some(now)
    /\ \E j \in DOMAIN file.tasks :
          ~file.tasks[j].completed /\ file.tasks[j].completed_at = None

\* ------------------------------------------------------------------ C17
\* C17: a command that fails leaves the loaded task data as it was: after
\* an edit or an add that failed (its due string rejected by parse_date, or
\* for any other reason) the storage in memory has the tasks and the next_id
\* that were loaded from the file, no task changed and none added.
C17_FailedCommandChangesNothing ==
    (out.done /\ ~out.val.ok) => (tasks = file.tasks /\ next_id = file.next_id)

\* ------------------------------------------------------------------ C18
TaskOf(ts, id) == ts[position(ts, id)]
\* What one step may do to the task with the id, from old to new.
CompletionKept(old, new) ==
    /\ new.created_at = old.created_at
    /\ old.completed => new.completed
    /\ new.completed_at # old.completed_at => ~old.completed /\ new.completed
    /\ (~old.completed /\ new.completed) =>
          args' = [op |-> "complete"] /\ new.completed_at = Some(now)
    /\ (args' = [op |-> "complete"] /\ old.completed) => new = old
    /\ args' = [op |-> "edit"] =>
          new.completed = old.completed /\ new.completed_at = old.completed_at
CompletionStep ==
    /\ \A id \in StoredIds(file.tasks) \cap StoredIds(tasks') :
          CompletionKept(TaskOf(file.tasks, id), TaskOf(tasks', id))
    /\ \A id \in StoredIds(file.tasks) \cap StoredIds(file'.tasks) :
          CompletionKept(TaskOf(file.tasks, id), TaskOf(file'.tasks, id))

\* C18: a task's completed_at is written once, by the complete command that
\* takes completed from false to true, with the instant of that command; a
\* complete command on a completed task changes no field of it, an edit
\* command changes neither completed nor completed_at nor created_at, and
\* completed never goes back to false.
C18_CompletedAtSetOnce == [][CompletionStep]_vars
\* A complete command that succeeded at instant 2 on the one stored task,
\* which had been completed at instant 1.
C18_Witness ==
    /\ args = [op |-> "complete"]
    /\ out.done /\ out.val.ok
    /\ now = 2
    /\ Len(file.tasks) = 1
    /\ file.tasks[1].completed
    /\ file.tasks[1].completed_at = Some(1)

====
